---- MODULE Spec2Model ----
(***************************************************************************)
(* Shadow-stack race engine of cilkprace: the serial-parallel frame stack  *)
(* (cilkprace/sstack.h and its earlier variants), the CSI callbacks that   *)
(* drive it (cilkprace/cilkprace.cpp) and the reducer hooks identity and   *)
(* reduce.  Access sets are modelled by their key sets: the source_loc     *)
(* payload of map_t plays no part in any comparison the engine makes.      *)
(***************************************************************************)
EXTENDS Integers, Sequences, FiniteSets, TLC

\* ------------------------------------------------------------- bounds
NumAddr == 2
NumSyncReg == 2
MaxEvents == 10
MaxDepth == 3
MaxViewFrames == 2
MaxOps == 6
MaxAllocBytes == 1
NumSetAddr == 3

Addr == 1..NumAddr
SyncReg == 0..(NumSyncReg - 1)
ViewId == {1, 2, 3}

VARIABLES
  views,      \* ViewId -> sequence of frames (shadow_stack_t::frames), bottom first
  alive,      \* ViewId -> "none" | "live" | "destroyed"
  status,     \* "ok", or the message of the assertion that aborted the process
  witness,    \* collisions filled by the last join / enter_serial / reduce
  lastev,     \* the last callback or hook executed
  reports,    \* race reports written to the output sink, oldest first
  nev,        \* number of callbacks executed so far
  script,     \* the literal event stream being replayed (<<>>: free-running)
  ctl,        \* instrumented program: stack of open function/task contexts
  pend,       \* instrumented program: callback the front-end owes next
  tags,       \* instrumented program: sync region of each frame of view 1
  racy,       \* addresses written by two logically-parallel strands so far
  orig,       \* the views as first constructed (reducer runs)
  infos,      \* ViewId -> sequence of function frames (shadow_stack_t::infos)
  pc          \* two workers: events each worker has executed (else <<>>)

vars == <<views, alive, status, witness, lastev, reports, nev, script,
          ctl, pend, tags, racy, orig, infos, pc>>

\* ------------------------------------------------------------- sstack.h
\* struct sp_frame_t, default-initialised
sp_frame_t == [is_continue |-> FALSE, sr |-> {}, sw |-> {}, pr |-> {}, pw |-> {}]

\* struct fn_info_frame_t: low_mark and init_sp are null (0) until an alloca
fn_info_frame_t(func_id) == [func_id |-> func_id, low_mark |-> 0, init_sp |-> 0]

AssertPop == "Trying to pop() from empty shadow sp stack!"
AssertBack == "Trying to back() from empty shadow sp stack!"
AssertTask == "Expected task frame in join!"
AssertDtor == "Shadow sp stack destructed with information!"
AssertDtorInfo == "Shadow info stack destructed with information!"

\* is_disjoint that starts from an empty intersect
is_disjoint_reset(small, large, intersect) ==
  {access \in small : access \in large}

\* is_disjoint with the membership test inverted
is_disjoint_inverted(small, large, intersect) ==
  intersect \cup {access \in small : access \notin large}

\* is_disjoint(small, large, intersect): scans the smaller operand and adds
\* every common key to intersect; the value is the new content of intersect.
RECURSIVE is_disjoint(_, _, _)
is_disjoint(small, large, intersect) ==
  IF Cardinality(small) > Cardinality(large)
  THEN is_disjoint(large, small, intersect)
  ELSE intersect \cup {access \in small : access \in large}

\* merge_into that swaps the operands and copies nothing
merge_into_swap_only(large, small) ==
  IF Cardinality(small) > Cardinality(large)
  THEN [large |-> small, small |-> large]
  ELSE [large |-> large \cup small, small |-> small]

\* merge_into(large, small): both arguments are references; the result gives
\* the content of each after the call.
merge_into(large, small) ==
  IF Cardinality(small) > Cardinality(large)
  THEN [large |-> small \cup large, small |-> large]
  ELSE [large |-> large \cup small, small |-> small]

\* shadow_stack_t::back(), on a non-empty stack
back(fr) == fr[Len(fr)]

\* shadow_stack_t::pop(): the frames left after pop_back
pop(fr) == SubSeq(fr, 1, Len(fr) - 1)

\* shadow_stack_t::push()
push(fr) == Append(fr, sp_frame_t)

\* add_task_frame that marks the new frame a Continuation
add_task_frame_marked(fr) == [push(fr) EXCEPT ![Len(fr) + 1].is_continue = TRUE]

add_task_frame(fr) == [push(fr) EXCEPT ![Len(fr) + 1].is_continue = FALSE]

\* add_continue_frame that leaves the new frame a task frame
add_continue_frame_unmarked(fr) == [push(fr) EXCEPT ![Len(fr) + 1].is_continue = FALSE]

\* add_continue_frame that pushes nothing on top of a Continuation frame
add_continue_frame_once(fr) ==
  IF fr # <<>> /\ fr[Len(fr)].is_continue THEN fr
  ELSE [push(fr) EXCEPT ![Len(fr) + 1].is_continue = TRUE]

add_continue_frame(fr) == [push(fr) EXCEPT ![Len(fr) + 1].is_continue = TRUE]

\* assertion reached by register_write (back() on an empty stack), or "ok"
register_write_assert(fr) == IF fr = <<>> THEN AssertBack ELSE "ok"

\* register_write that records the address in every frame of the stack
register_write_all(fr, addr) ==
  [i \in DOMAIN fr |-> [fr[i] EXCEPT !.sw = @ \cup {addr}]]

register_write(fr, addr) == [fr EXCEPT ![Len(fr)].sw = @ \cup {addr}]

\* the pop-and-merge step without merge_into(oth.sw, oth.pw): see below
\* One pop-and-merge step shared by join and the loop of enter_serial:
\*   auto oth = pop(); merge_into(oth.sw, oth.pw);
\*   is_disjoint(back().pw, oth.sw, collisions); merge_into(back().pw, oth.sw);
merge_top_serial_only(fr, collisions) ==
  LET oth == back(fr)
      rest == pop(fr)
  IN [frames |-> [rest EXCEPT ![Len(rest)].pw = merge_into(@, oth.sw).large],
      collisions |-> is_disjoint(back(rest).pw, oth.sw, collisions)]

merge_top(fr, collisions) ==
  LET oth == back(fr)
      rest == pop(fr)
      othsw == merge_into(oth.sw, oth.pw).large
      coll == is_disjoint(back(rest).pw, othsw, collisions)
      newpw == merge_into(back(rest).pw, othsw).large
  IN [frames |-> [rest EXCEPT ![Len(rest)].pw = newpw], collisions |-> coll]

\* join_assert without the check of the popped frame's kind
join_assert_any_kind(fr) ==
  IF fr = <<>> THEN AssertPop
  ELSE IF Len(fr) = 1 THEN AssertBack
  ELSE "ok"

\* first assertion that fires in join, or "ok"
join_assert(fr) ==
  IF fr = <<>> THEN AssertPop
  ELSE IF back(fr).is_continue THEN AssertTask
  ELSE IF Len(fr) = 1 THEN AssertBack
  ELSE "ok"

\* join that leaves out merge_into(oth.sw, oth.pw)
join_drop_parallel(fr, collisions) ==
  LET oth == back(fr)
      rest == pop(fr)
  IN [frames |-> [rest EXCEPT ![Len(rest)].pw = merge_into(@, oth.sw).large],
      collisions |-> is_disjoint(back(rest).pw, oth.sw, collisions)]

join(fr, collisions) == merge_top(fr, collisions)

\* the value join returns: collisions.empty()
join_returns(fr, collisions) == join(fr, collisions).collisions = {}

\* the loop of enter_serial leaving after one Continuation frame
enter_serial_once(fr, collisions) ==
  IF Len(fr) >= 2 /\ back(fr).is_continue
  THEN merge_top(fr, collisions)
  ELSE [frames |-> fr, collisions |-> collisions]

\* the loop of enter_serial stopping while two frames are left
RECURSIVE enter_serial_loop_above_two(_, _)
enter_serial_loop_above_two(fr, collisions) ==
  IF Len(fr) >= 3 /\ back(fr).is_continue
  THEN LET r == merge_top(fr, collisions)
       IN enter_serial_loop_above_two(r.frames, r.collisions)
  ELSE [frames |-> fr, collisions |-> collisions]

\* the while loop of enter_serial
RECURSIVE enter_serial_loop(_, _)
enter_serial_loop(fr, collisions) ==
  IF Len(fr) >= 2 /\ back(fr).is_continue
  THEN LET r == merge_top(fr, collisions)
       IN enter_serial_loop(r.frames, r.collisions)
  ELSE [frames |-> fr, collisions |-> collisions]

enter_serial_assert(fr) == IF fr = <<>> THEN AssertBack ELSE "ok"

\* enter_serial that clears the top frame's pw without merging it into sw
enter_serial_drop(fr, collisions) ==
  LET r == enter_serial_loop(fr, collisions)
  IN [frames |-> [r.frames EXCEPT ![Len(r.frames)].pw = {}],
      collisions |-> r.collisions]

enter_serial(fr, collisions) ==
  LET r == enter_serial_loop(fr, collisions)
      top == back(r.frames)
      newsw == merge_into(top.sw, top.pw).large
  IN [frames |-> [r.frames EXCEPT ![Len(r.frames)].sw = newsw,
                                  ![Len(r.frames)].pw = {}],
      collisions |-> r.collisions]

\* --- function frames (infos)
AssertInfo == "Trying to back() from empty shadow info stack!"
AssertFuncId == "Trying to exit_func() with mismatched func_id!"
AssertExitContinue == "Trying to exit_func() with a continue frame!"
AssertGrow == "Stack grew in unexepcted direction!"

\* shadow_stack_t::enter_func
enter_func(inf, func_id) == Append(inf, fn_info_frame_t(func_id))

\* register_alloca that takes every alloca for the first one
info_register_alloca_latest(f, addr, nb) ==
  [f EXCEPT !.init_sp = addr + nb,
            !.low_mark = IF f.init_sp = 0 \/ addr < @ THEN addr ELSE @]

\* fn_info_frame_t::register_alloca, when its assert holds
info_register_alloca(f, addr, nb) ==
  LET g == IF f.init_sp = 0
           THEN [f EXCEPT !.init_sp = addr + nb, !.low_mark = addr]
           ELSE f
  IN [g EXCEPT !.low_mark = IF addr < @ THEN addr ELSE @]

\* assertion reached by shadow_stack_t::register_alloca, or "ok"
register_alloca_assert(inf, addr, nb) ==
  IF inf = <<>> THEN AssertInfo
  ELSE IF back(inf).init_sp # 0 /\ back(inf).init_sp < addr + nb THEN AssertGrow
  ELSE "ok"

\* shadow_stack_t::register_alloca
register_alloca(inf, addr, nb) ==
  [inf EXCEPT ![Len(inf)] = info_register_alloca(@, addr, nb)]

\* first assertion that fires in exit_func, or "ok"
exit_func_assert(fr, inf, func_id) ==
  IF inf = <<>> THEN AssertInfo
  ELSE IF back(inf).func_id # func_id THEN AssertFuncId
  ELSE IF fr = <<>> THEN AssertBack
  ELSE IF back(fr).is_continue THEN AssertExitContinue
  ELSE "ok"

\* addresses exit_func erases: low_mark .. init_sp, if an alloca was recorded
erased_range(f) == IF f.init_sp = 0 THEN {} ELSE f.low_mark..f.init_sp

\* shadow_stack_t::exit_func: erase the range from back().sw, pop the info frame
exit_func(fr, inf, func_id) ==
  [frames |-> [fr EXCEPT ![Len(fr)].sw = @ \ erased_range(back(inf))],
   infos |-> pop(inf)]

\* ------------------------------------------------- cilkprace.cpp: the tool
\* An event of the instrumentation stream
Ev(op, sr, addr) == [op |-> op, sr |-> sr, addr |-> addr]

\* common bookkeeping of one executed callback
Done(ev) == /\ lastev' = ev
            /\ nev' = nev + 1
            /\ UNCHANGED <<alive, orig, infos, pc>>

\* a callback that leaves the engine alone (only traces)
Idle == UNCHANGED <<views, status, witness, reports>>

\* the process dies on a failed assert: nothing else changes
Abort(msg) == /\ status' = msg
              /\ UNCHANGED <<views, witness, reports>>

\* report written whether or not collisions is empty
Report_unguarded(phase, collisions) ==
  Append(reports, [phase |-> phase, addrs |-> collisions, at |-> nev + 1])

Report(phase, collisions) ==
  IF collisions # {}
  THEN Append(reports, [phase |-> phase, addrs |-> collisions, at |-> nev + 1])
  ELSE reports

\* CilkgraphImpl_t::add_task_frame
Tool_add_task_frame(v) ==
  /\ views' = [views EXCEPT ![v] = add_task_frame(views[v])]
  /\ UNCHANGED <<status, witness, reports>>

\* CilkgraphImpl_t::add_continue_frame
Tool_add_continue_frame(v) ==
  /\ views' = [views EXCEPT ![v] = add_continue_frame(views[v])]
  /\ UNCHANGED <<status, witness, reports>>

\* register_write on a stack that is a plain member shared by all workers
Tool_register_write_shared(v, addr) ==
  /\ views' = [views EXCEPT ![1] = register_write(views[1], addr)]
  /\ UNCHANGED <<status, witness, reports>>

\* CilkgraphImpl_t::register_write
Tool_register_write(v, addr) ==
  IF register_write_assert(views[v]) # "ok"
  THEN Abort(register_write_assert(views[v]))
  ELSE /\ views' = [views EXCEPT ![v] = register_write(views[v], addr)]
       /\ UNCHANGED <<status, witness, reports>>

\* CilkgraphImpl_t::join: set_t collisions; stack.join(collisions); report
Tool_join(v) ==
  IF join_assert(views[v]) # "ok"
  THEN Abort(join_assert(views[v]))
  ELSE LET r == join(views[v], {})
       IN /\ views' = [views EXCEPT ![v] = r.frames]
          /\ witness' = r.collisions
          /\ reports' = Report("TASK EXIT", r.collisions)
          /\ status' = status

\* enter_serial that never writes a report
Tool_enter_serial_silent(v) ==
  IF enter_serial_assert(views[v]) # "ok"
  THEN Abort(enter_serial_assert(views[v]))
  ELSE LET r == enter_serial(views[v], {})
       IN /\ views' = [views EXCEPT ![v] = r.frames]
          /\ witness' = r.collisions
          /\ UNCHANGED <<reports, status>>

\* CilkgraphImpl_t::enter_serial
Tool_enter_serial(v) ==
  IF enter_serial_assert(views[v]) # "ok"
  THEN Abort(enter_serial_assert(views[v]))
  ELSE LET r == enter_serial(views[v], {})
       IN /\ views' = [views EXCEPT ![v] = r.frames]
          /\ witness' = r.collisions
          /\ reports' = Report("SYNC", r.collisions)
          /\ status' = status

\* ---------------------------------------------- cilkprace.cpp: the callbacks
csi_func_entry(v) == Tool_add_task_frame(v)

csi_func_exit(v) == Tool_join(v)

csi_before_store(v, addr) == Tool_register_write(v, addr)

csi_task(v) == Tool_add_task_frame(v)

csi_task_exit(v, sr) == Tool_join(v)

csi_detach(v, sr) == Idle

csi_detach_continue(v, sr) == Tool_add_continue_frame(v)

csi_before_sync(v, sr) == Idle

csi_after_sync(v, sr) == Tool_enter_serial(v)

\* __csi_after_alloca: trace output only
csi_after_alloca(v, addr, nb) == Idle

\* ------------------------------------------ the instrumented program (driver)
\* The front-end emits the callbacks of a serial run of a fork-join program.
\* ctl is the stack of contexts (function or task bodies) being executed; each
\* context holds the sync regions it has open, innermost last.  For each open
\* region: par is every address written by its already-exited spawned tasks,
\* owed the addresses written since by a strand parallel to such a task and not
\* yet seen in a witness, depth0 the stack depth before its first detach.
Context(kind, depth) == [kind |-> kind, w |-> {}, depth0 |-> depth, regs |-> <<>>]

Region(sr, depth) == [sr |-> sr, par |-> {}, owed |-> {}, depth0 |-> depth]

NoPend == [k |-> "none", sr |-> 0]

Scripted == script # <<>>

cur == ctl[Len(ctl)]

HasRegs(c) == c.regs # <<>>

TopReg(c) == c.regs[Len(c.regs)]

OpenSrs(c) == {c.regs[j].sr : j \in DOMAIN c.regs}

\* the current context's innermost open region is sr
InRegion(sr) == HasRegs(cur) /\ TopReg(cur).sr = sr

\* every address some exited task of a still-open region wrote
ParallelWrites ==
  UNION {UNION {ctl[i].regs[j].par : j \in DOMAIN ctl[i].regs} : i \in DOMAIN ctl}

\* ctl with f applied to every open region
MapRegs(cs, f(_)) ==
  [i \in DOMAIN cs |->
     [cs[i] EXCEPT !.regs = [j \in DOMAIN cs[i].regs |-> f(cs[i].regs[j])]]]

Wrote(r, x) == IF x \in r.par THEN [r EXCEPT !.owed = @ \cup {x}] ELSE r

\* ctl after the current strand writes x
CtlStore(x) ==
  LET a == MapRegs(ctl, LAMBDA r : Wrote(r, x))
  IN [a EXCEPT ![Len(a)].w = @ \cup {x}]

\* ctl after a witness W was returned
CtlSeen(cs, W) == MapRegs(cs, LAMBDA r : [r EXCEPT !.owed = @ \ W])

\* ctl after the current context (a called function or a task) returns
CtlExit(W) ==
  LET c == cur
      n == Len(ctl) - 1
      p == ctl[n]
      p1 == [p EXCEPT !.w = @ \cup c.w]
      p2 == IF c.kind = "task"
            THEN [p1 EXCEPT !.regs[Len(p.regs)].par = @ \cup c.w]
            ELSE p1
  IN CtlSeen(SubSeq(ctl, 1, n - 1) \o <<p2>>, W)

\* ctl after detach(sr): a first detach opens the region
CtlDetach(sr) ==
  IF InRegion(sr) THEN ctl
  ELSE [ctl EXCEPT ![Len(ctl)].regs = Append(@, Region(sr, Len(views[1])))]

\* ctl after after_sync(sr): the region, if open, is closed
CtlSync(sr, W) ==
  CtlSeen(IF InRegion(sr)
          THEN [ctl EXCEPT ![Len(ctl)].regs = SubSeq(@, 1, Len(@) - 1)]
          ELSE ctl, W)

\* Which callback the front-end may emit next in a free run
MayEmit(ev) ==
  /\ nev < MaxEvents
  /\ CASE ev.op = "func_entry" -> pend.k = "none" /\ Len(views[1]) < MaxDepth
       [] ev.op = "func_exit" -> pend.k = "none" /\ cur.kind = "func" /\ ~HasRegs(cur)
       [] ev.op = "before_store" -> pend.k = "none"
       [] ev.op = "detach" -> /\ pend.k = "none"
                              /\ Len(views[1]) < MaxDepth
                              /\ (InRegion(ev.sr) \/ ev.sr \notin OpenSrs(cur))
       [] ev.op = "task" -> pend.k = "task"
       [] ev.op = "task_exit" -> /\ pend.k = "none" /\ cur.kind = "task"
                                 /\ ~HasRegs(cur)
                                 /\ TopReg(ctl[Len(ctl) - 1]).sr = ev.sr
       [] ev.op = "detach_continue" -> pend = [k |-> "cont", sr |-> ev.sr]
       [] ev.op = "before_sync" -> /\ pend.k = "none"
                                   /\ (InRegion(ev.sr) \/ ev.sr \notin OpenSrs(cur))
       [] ev.op = "after_sync" -> pend = [k |-> "sync", sr |-> ev.sr]
       [] OTHER -> FALSE

\* The program's side of a free-running callback (the engine has already moved)
Program(ev) ==
  /\ script' = script
  /\ IF status' # "ok" THEN UNCHANGED <<ctl, pend, tags, racy>>
     ELSE CASE ev.op = "func_entry" ->
                 /\ ctl' = Append(ctl, Context("func", Len(views[1])))
                 /\ tags' = Append(tags, -1)
                 /\ UNCHANGED <<pend, racy>>
            [] ev.op = "func_exit" ->
                 /\ ctl' = CtlExit(witness')
                 /\ tags' = SubSeq(tags, 1, Len(views'[1]))
                 /\ UNCHANGED <<pend, racy>>
            [] ev.op = "before_store" ->
                 /\ ctl' = CtlStore(ev.addr)
                 /\ racy' = racy \cup ({ev.addr} \cap ParallelWrites)
                 /\ UNCHANGED <<pend, tags>>
            [] ev.op = "detach" ->
                 /\ ctl' = CtlDetach(ev.sr)
                 /\ pend' = [k |-> "task", sr |-> ev.sr]
                 /\ UNCHANGED <<tags, racy>>
            [] ev.op = "task" ->
                 /\ ctl' = Append(ctl, Context("task", Len(views[1])))
                 /\ tags' = Append(tags, -1)
                 /\ pend' = NoPend
                 /\ racy' = racy
            [] ev.op = "task_exit" ->
                 /\ ctl' = CtlExit(witness')
                 /\ tags' = SubSeq(tags, 1, Len(views'[1]))
                 /\ pend' = [k |-> "cont", sr |-> ev.sr]
                 /\ racy' = racy
            [] ev.op = "detach_continue" ->
                 /\ tags' = Append(tags, ev.sr)
                 /\ pend' = NoPend
                 /\ UNCHANGED <<ctl, racy>>
            [] ev.op = "before_sync" ->
                 /\ pend' = [k |-> "sync", sr |-> ev.sr]
                 /\ UNCHANGED <<ctl, tags, racy>>
            [] ev.op = "after_sync" ->
                 /\ ctl' = CtlSync(ev.sr, witness')
                 /\ tags' = SubSeq(tags, 1, Len(views'[1]))
                 /\ pend' = NoPend
                 /\ racy' = racy

\* Replaying a literal event stream: the next event of the script, whatever it is
Replay(ev) ==
  /\ nev < Len(script)
  /\ script[nev + 1] = ev
  /\ UNCHANGED <<script, ctl, pend, tags, racy>>

\* One callback: enabled by the stream, executed by the engine on view 1
Allowed(ev) == status = "ok" /\ IF Scripted THEN nev < Len(script) /\ script[nev + 1] = ev
                                ELSE MayEmit(ev)

Driven(ev) == IF Scripted THEN Replay(ev) ELSE Program(ev)

\* ------------------------------------------------------------- actions
FuncEntry ==
  LET ev == Ev("func_entry", 0, 0)
  IN Allowed(ev) /\ csi_func_entry(1) /\ Done(ev) /\ Driven(ev)

FuncExit ==
  LET ev == Ev("func_exit", 0, 0)
  IN Allowed(ev) /\ csi_func_exit(1) /\ Done(ev) /\ Driven(ev)

\* addresses the program stores to
StoreAddr ==
  IF Scripted THEN {script[i].addr : i \in DOMAIN script} \ {0} ELSE Addr

BeforeStore ==
  \E x \in StoreAddr :
    LET ev == Ev("before_store", 0, x)
    IN Allowed(ev) /\ csi_before_store(1, x) /\ Done(ev) /\ Driven(ev)

Detach ==
  \E sr \in SyncReg :
    LET ev == Ev("detach", sr, 0)
    IN Allowed(ev) /\ csi_detach(1, sr) /\ Done(ev) /\ Driven(ev)

Task ==
  LET ev == Ev("task", 0, 0)
  IN Allowed(ev) /\ csi_task(1) /\ Done(ev) /\ Driven(ev)

TaskExit ==
  \E sr \in SyncReg :
    LET ev == Ev("task_exit", sr, 0)
    IN Allowed(ev) /\ csi_task_exit(1, sr) /\ Done(ev) /\ Driven(ev)

DetachContinue ==
  \E sr \in SyncReg :
    LET ev == Ev("detach_continue", sr, 0)
    IN Allowed(ev) /\ csi_detach_continue(1, sr) /\ Done(ev) /\ Driven(ev)

BeforeSync ==
  \E sr \in SyncReg :
    LET ev == Ev("before_sync", sr, 0)
    IN Allowed(ev) /\ csi_before_sync(1, sr) /\ Done(ev) /\ Driven(ev)

AfterSync ==
  \E sr \in SyncReg :
    LET ev == Ev("after_sync", sr, 0)
    IN Allowed(ev) /\ csi_after_sync(1, sr) /\ Done(ev) /\ Driven(ev)

\* ------------------------------------------------------------- single view
\* CilkgraphImpl_t() : stack(): the leftmost view, shadow_stack_t(has_frame = true)
ToolViews == [v \in ViewId |-> IF v = 1 THEN <<sp_frame_t>> ELSE <<>>]

ToolAlive == [v \in ViewId |-> IF v = 1 THEN "live" ELSE "none"]

\* infos((int)has_frame): one default function frame in the tool's view
ToolInfos == [v \in ViewId |-> IF v = 1 THEN <<fn_info_frame_t(-1)>> ELSE <<>>]

InitCommon ==
  /\ views = ToolViews
  /\ alive = ToolAlive
  /\ status = "ok"
  /\ witness = {}
  /\ lastev = Ev("init", 0, 0)
  /\ reports = <<>>
  /\ nev = 0
  /\ ctl = <<Context("root", 0)>>
  /\ pend = NoPend
  /\ tags = <<-1>>
  /\ racy = {}
  /\ orig = <<>>
  /\ pc = <<>>
  /\ infos = ToolInfos

Init == InitCommon /\ script = <<>>

Next ==
  \/ FuncEntry
  \/ FuncExit
  \/ BeforeStore
  \/ Detach
  \/ Task
  \/ TaskExit
  \/ DetachContinue
  \/ BeforeSync
  \/ AfterSync

Spec == Init /\ [][Next]_vars

\* ------------------------------------------------------------- scenarios
\* Literal event streams of the test scenarios, replayed on the tool's view.
\* S2 (two spawned siblings) is followed by the detach_continue and after_sync
\* that close its region; S3 is a spawned task against its continuation.
S1 ==
  <<Ev("func_entry", 0, 0), Ev("before_store", 0, 256), Ev("detach", 0, 0),
    Ev("task", 0, 0), Ev("before_store", 0, 512), Ev("task_exit", 0, 0),
    Ev("detach_continue", 0, 0), Ev("before_store", 0, 768),
    Ev("before_sync", 0, 0), Ev("after_sync", 0, 0), Ev("func_exit", 0, 0)>>

S2(x, y, sr) ==
  <<Ev("detach", sr, 0), Ev("task", 0, 0), Ev("before_store", 0, x),
    Ev("task_exit", sr, 0), Ev("detach_continue", sr, 0), Ev("detach", sr, 0),
    Ev("task", 0, 0), Ev("before_store", 0, y), Ev("task_exit", sr, 0),
    Ev("detach_continue", sr, 0), Ev("after_sync", sr, 0)>>

S3(x, y, sr) ==
  <<Ev("detach", sr, 0), Ev("task", 0, 0), Ev("before_store", 0, x),
    Ev("task_exit", sr, 0), Ev("detach_continue", sr, 0),
    Ev("before_store", 0, y), Ev("after_sync", sr, 0)>>

\* S4, nested syncs: region 1 races on x; region 0 encloses it and also
\* writes y.  In S4a region 1 lies in the task spawned in region 0, in S4b in
\* the continuation of region 0.
S4a(x, y) ==
  <<Ev("detach", 0, 0), Ev("task", 0, 0), Ev("detach", 1, 0), Ev("task", 0, 0),
    Ev("before_store", 0, x), Ev("task_exit", 1, 0), Ev("detach_continue", 1, 0),
    Ev("before_store", 0, x), Ev("after_sync", 1, 0), Ev("task_exit", 0, 0),
    Ev("detach_continue", 0, 0), Ev("before_store", 0, y), Ev("after_sync", 0, 0)>>

S4b(x, y) ==
  <<Ev("detach", 0, 0), Ev("task", 0, 0), Ev("before_store", 0, y),
    Ev("task_exit", 0, 0), Ev("detach_continue", 0, 0), Ev("detach", 1, 0),
    Ev("task", 0, 0), Ev("before_store", 0, x), Ev("task_exit", 1, 0),
    Ev("detach_continue", 1, 0), Ev("before_store", 0, x), Ev("after_sync", 1, 0),
    Ev("after_sync", 0, 0)>>

\* 0x42 and 0x100, the addresses the scenarios store to
ScenarioAddr == {66, 256}

\* 0xA and a second address, for the nested scenario
NestedAddr == {10, 11}

Scenarios ==
  {S1} \cup {S2(x, y, sr) : x \in ScenarioAddr, y \in ScenarioAddr, sr \in SyncReg}
       \cup {S3(x, y, sr) : x \in ScenarioAddr, y \in ScenarioAddr, sr \in SyncReg}
       \cup {S4a(x, y) : x \in NestedAddr, y \in NestedAddr}
       \cup {S4b(x, y) : x \in NestedAddr, y \in NestedAddr}

InitScenario == InitCommon /\ script \in Scenarios

SpecScenario == InitScenario /\ [][Next]_vars

\* --- the alloca hook
\* S5, stack-local filter: a function called in a spawned task records an
\* alloca of nb bytes at addr and stores to addr + off; after the task has
\* exited, the continuation (its parallel sibling) stores to y.
AllocaEv(addr, nb) == [op |-> "after_alloca", sr |-> 0, addr |-> addr, nb |-> nb]

S5(addr, nb, off, y, sr) ==
  <<Ev("detach", sr, 0), Ev("task", 0, 0), Ev("func_entry", 0, 0),
    AllocaEv(addr, nb), Ev("before_store", 0, addr + off), Ev("func_exit", 0, 0),
    Ev("task_exit", sr, 0), Ev("detach_continue", sr, 0), Ev("before_store", 0, y),
    Ev("before_sync", sr, 0), Ev("after_sync", sr, 0)>>

\* 0x1000 and 0x2000, with 16-byte allocas
AllocaBase == {4096, 8192}

S5Streams ==
  {S5(a, 16, off, a + y, sr) :
     a \in AllocaBase, off \in {0, 8}, y \in {0, 8}, sr \in SyncReg}

AfterAlloca ==
  \E ev \in {script[i] : i \in DOMAIN script} :
    /\ ev.op = "after_alloca"
    /\ Allowed(ev)
    /\ csi_after_alloca(1, ev.addr, ev.nb)
    /\ Done(ev)
    /\ Driven(ev)

InitAlloca == InitCommon /\ script \in S5Streams

NextAlloca == Next \/ AfterAlloca

SpecAlloca == InitAlloca /\ [][NextAlloca]_vars

\* ------------------------------------------------------------- reducer hooks
\* bookkeeping of one executed reducer hook or direct stack operation
Hook(ev) == /\ lastev' = ev
            /\ nev' = nev + 1
            /\ UNCHANGED <<script, ctl, pend, tags, racy, orig, infos, pc>>

Frame(c, s, p) == [sp_frame_t EXCEPT !.is_continue = c, !.sw = s, !.pw = p]

SeqsUpTo(S, n) == UNION {[1..k -> S] : k \in 0..n}

\* r is the live view next to the right of l
Adjacent(l, r) ==
  /\ l < r
  /\ alive[l] = "live"
  /\ alive[r] = "live"
  /\ \A m \in ViewId : (l < m /\ m < r) => alive[m] # "live"

\* --- concatenating reducer (sstack.h)
\* shadow_stack_t::identity: new (view) shadow_stack_t(false)
identity == <<>>

\* append_stack that copies nothing into a stack that holds no frame
append_stack_nonempty(fr, oth) == IF fr = <<>> THEN fr ELSE fr \o oth

\* append_stack that inserts the other stack's frames at the bottom
append_stack_front(fr, oth) == oth \o fr

\* shadow_stack_t::append_stack: frames.insert(frames.end(), oth.begin(), oth.end())
append_stack(fr, oth) == fr \o oth

\* a destructor that accepts only the stack without a frame
destruct_assert_empty_only(fr, inf) ==
  IF Len(fr) > 0 THEN AssertDtor
  ELSE IF Len(inf) > 1 THEN AssertDtorInfo
  ELSE "ok"

\* ~shadow_stack_t on a stack of frames fr and function frames inf: the first
\* of its two assertions that fails, or "ok"
destruct_assert(fr, inf) ==
  IF Len(fr) > 1 THEN AssertDtor
  ELSE IF Len(inf) > 1 THEN AssertDtorInfo
  ELSE "ok"

\* shadow_stack_t::reduce(left, right): left->append_stack(*right), then the
\* destructor runs on right, whose frames append_stack only copied and whose
\* function frames it left alone.
Tool_reduce(l, r) ==
  /\ IF destruct_assert(views[r], infos[r]) # "ok"
     THEN /\ views' = [views EXCEPT ![l] = append_stack(views[l], views[r])]
          /\ status' = destruct_assert(views[r], infos[r])
          /\ alive' = alive
     ELSE /\ views' = [views EXCEPT ![l] = append_stack(views[l], views[r]),
                                    ![r] = <<>>]
          /\ status' = status
          /\ alive' = [alive EXCEPT ![r] = "destroyed"]
  /\ UNCHANGED <<witness, reports>>

ReduceA ==
  \E l \in ViewId, r \in ViewId :
    /\ status = "ok"
    /\ lastev.op = "init"
    /\ Adjacent(l, r)
    /\ Tool_reduce(l, r)
    /\ Hook([op |-> "reduce", left |-> l, right |-> r])

\* the next join on the merged stack
MergedJoin ==
  /\ status = "ok"
  /\ lastev.op = "reduce"
  /\ Tool_join(lastev.left)
  /\ alive' = alive
  /\ Hook([op |-> "join", left |-> lastev.left, right |-> lastev.right])

\* Two views just before a reduce: the left one holds one task frame, the right
\* one (a stolen continuation's view, started by identity) up to MaxViewFrames
\* frames with their own writes.
LeftViewsA == {<<Frame(FALSE, s, p)>> : s \in SUBSET Addr, p \in SUBSET Addr}

RightViewsA ==
  SeqsUpTo({Frame(c, s, {}) : c \in BOOLEAN, s \in SUBSET Addr}, MaxViewFrames)

InitReduceA ==
  /\ views \in {[v \in ViewId |-> IF v = 1 THEN a ELSE IF v = 2 THEN b ELSE <<>>] :
                  a \in LeftViewsA, b \in RightViewsA}
  /\ alive = [v \in ViewId |-> IF v = 3 THEN "none" ELSE "live"]
  /\ orig = views
  /\ pc = <<>>
  /\ status = "ok"
  /\ witness = {}
  /\ lastev = [op |-> "init"]
  /\ reports = <<>>
  /\ nev = 0
  /\ script = <<>>
  /\ ctl = <<>>
  /\ pend = NoPend
  /\ tags = <<>>
  /\ racy = {}
  /\ infos = [v \in ViewId |-> <<>>]

NextReduceA == ReduceA \/ MergedJoin

SpecReduceA == InitReduceA /\ [][NextReduceA]_vars

\* --- a stolen continuation (concatenating reducer)
\* The events of a parallel region, as the hooks see them when the first
\* continuation is stolen: the runtime calls identity for the thief's view
\* before the continuation's detach_continue, the thief's hooks run on that
\* view, and the runtime calls reduce before the region's after_sync.
Region1(x, y) == S3(x, y, 0)

Region2(x, y) == S2(x, y, 0)

Region3(x, y) ==
  <<Ev("detach", 0, 0), Ev("task", 0, 0), Ev("before_store", 0, x),
    Ev("task_exit", 0, 0), Ev("detach_continue", 0, 0), Ev("func_entry", 0, 0),
    Ev("before_store", 0, y), Ev("func_exit", 0, 0), Ev("before_sync", 0, 0),
    Ev("after_sync", 0, 0)>>

Regions ==
  UNION {{Region1(x, y), Region2(x, y), Region3(x, y)} :
           x \in ScenarioAddr, y \in ScenarioAddr}

FirstContinue(s) ==
  CHOOSE i \in DOMAIN s :
    s[i].op = "detach_continue" /\ \A j \in 1..(i - 1) : s[j].op # "detach_continue"

Stolen(s) ==
  SubSeq(s, 1, FirstContinue(s) - 1) \o <<Ev("identity", 0, 0)>>
    \o SubSeq(s, FirstContinue(s), Len(s) - 1)
    \o <<Ev("reduce", 0, 0), s[Len(s)]>>

\* the view the running worker's hooks act on
Worker == IF alive[2] = "live" THEN 2 ELSE 1

\* the hook an event of the stream calls
csi_dispatch(v, ev) ==
  CASE ev.op = "func_entry" -> csi_func_entry(v)
    [] ev.op = "func_exit" -> csi_func_exit(v)
    [] ev.op = "before_store" -> csi_before_store(v, ev.addr)
    [] ev.op = "task" -> csi_task(v)
    [] ev.op = "task_exit" -> csi_task_exit(v, ev.sr)
    [] ev.op = "detach" -> csi_detach(v, ev.sr)
    [] ev.op = "detach_continue" -> csi_detach_continue(v, ev.sr)
    [] ev.op = "before_sync" -> csi_before_sync(v, ev.sr)
    [] ev.op = "after_sync" -> csi_after_sync(v, ev.sr)

NextEvent(ev) == status = "ok" /\ nev < Len(script) /\ script[nev + 1] = ev

StealIdentity ==
  LET ev == Ev("identity", 0, 0)
  IN /\ NextEvent(ev)
     /\ views' = [views EXCEPT ![2] = identity]
     /\ alive' = [alive EXCEPT ![2] = "live"]
     /\ UNCHANGED <<status, witness, reports>>
     /\ Hook(ev)

StealReduce ==
  LET ev == Ev("reduce", 0, 0)
  IN /\ NextEvent(ev)
     /\ Tool_reduce(1, 2)
     /\ Hook(ev)

StolenHook ==
  \E ev \in {script[i] : i \in DOMAIN script} :
    /\ ev.op \notin {"identity", "reduce"}
    /\ NextEvent(ev)
    /\ csi_dispatch(Worker, ev)
    /\ alive' = alive
    /\ Hook(ev)

InitSteal == InitCommon /\ script \in {Stolen(s) : s \in Regions}

NextSteal == StealIdentity \/ StealReduce \/ StolenHook

SpecSteal == InitSteal /\ [][NextSteal]_vars

\* The same hooks as functions of a single view: frames, the race addresses
\* reported so far, and the assertion that stopped the run (or "ok").
tool_state(fr) == [frames |-> fr, races |-> {}, status |-> "ok"]

csi_apply(st, ev) ==
  IF st.status # "ok" THEN st
  ELSE CASE ev.op \in {"func_entry", "task"} ->
              [st EXCEPT !.frames = add_task_frame(@)]
         [] ev.op \in {"func_exit", "task_exit"} ->
              IF join_assert(st.frames) # "ok"
              THEN [st EXCEPT !.status = join_assert(st.frames)]
              ELSE [st EXCEPT !.frames = join(st.frames, {}).frames,
                              !.races = @ \cup join(st.frames, {}).collisions]
         [] ev.op = "before_store" ->
              IF register_write_assert(st.frames) # "ok"
              THEN [st EXCEPT !.status = register_write_assert(st.frames)]
              ELSE [st EXCEPT !.frames = register_write(@, ev.addr)]
         [] ev.op = "detach_continue" ->
              [st EXCEPT !.frames = add_continue_frame(@)]
         [] ev.op = "after_sync" ->
              IF enter_serial_assert(st.frames) # "ok"
              THEN [st EXCEPT !.status = enter_serial_assert(st.frames)]
              ELSE [st EXCEPT !.frames = enter_serial(st.frames, {}).frames,
                              !.races = @ \cup enter_serial(st.frames, {}).collisions]
         [] OTHER -> st

RECURSIVE csi_run(_, _)
csi_run(st, evs) ==
  IF evs = <<>> THEN st ELSE csi_run(csi_apply(st, Head(evs)), Tail(evs))

\* --- the engine called directly
\* The public operations of one shadow_stack_t, called in any order by a
\* client: on the view the constructor builds or on a fresh identity view.
\* ctl keeps, for each function entered and not yet exited, the addresses
\* written since it was entered.
EngDone(ev) ==
  /\ lastev' = ev
  /\ nev' = nev + 1
  /\ UNCHANGED <<alive, script, pend, tags, racy, orig, pc>>

EngReady == status = "ok" /\ nev < MaxOps

EngEnterFunc ==
  /\ EngReady
  /\ Len(infos[1]) < MaxDepth
  /\ infos' = [infos EXCEPT ![1] = enter_func(@, Len(@) + 1)]
  /\ ctl' = Append(ctl, Context("func", Len(views[1])))
  /\ UNCHANGED <<views, status, witness, reports>>
  /\ EngDone([op |-> "enter_func", func_id |-> Len(infos[1]) + 1])

\* register_alloca(addr, nb) with allocas of MaxAllocBytes bytes
EngAlloca ==
  \E addr \in Addr, nb \in {MaxAllocBytes} :
    /\ EngReady
    /\ IF register_alloca_assert(infos[1], addr, nb) # "ok"
       THEN /\ status' = register_alloca_assert(infos[1], addr, nb)
            /\ infos' = infos
       ELSE /\ infos' = [infos EXCEPT ![1] = register_alloca(@, addr, nb)]
            /\ status' = status
    /\ UNCHANGED <<views, witness, reports, ctl>>
    /\ EngDone([op |-> "register_alloca", addr |-> addr, nb |-> nb])

EngWrite ==
  \E addr \in Addr :
    /\ EngReady
    /\ Tool_register_write(1, addr)
    /\ ctl' = [i \in DOMAIN ctl |-> [ctl[i] EXCEPT !.w = @ \cup {addr}]]
    /\ infos' = infos
    /\ EngDone([op |-> "register_write", addr |-> addr])

EngTask ==
  /\ EngReady
  /\ Len(views[1]) < MaxDepth
  /\ Tool_add_task_frame(1)
  /\ UNCHANGED <<ctl, infos>>
  /\ EngDone([op |-> "add_task_frame"])

EngJoin ==
  /\ EngReady
  /\ Tool_join(1)
  /\ UNCHANGED <<ctl, infos>>
  /\ EngDone([op |-> "join"])

EngExitFunc ==
  \E func_id \in 1..MaxDepth :
    /\ EngReady
    /\ IF exit_func_assert(views[1], infos[1], func_id) # "ok"
       THEN /\ status' = exit_func_assert(views[1], infos[1], func_id)
            /\ UNCHANGED <<views, infos, ctl>>
       ELSE /\ views' = [views EXCEPT ![1] = exit_func(@, infos[1], func_id).frames]
            /\ infos' = [infos EXCEPT ![1] = exit_func(views[1], @, func_id).infos]
            /\ ctl' = SubSeq(ctl, 1, Len(ctl) - 1)
            /\ status' = status
    /\ UNCHANGED <<witness, reports>>
    /\ EngDone([op |-> "exit_func", func_id |-> func_id])

EngContinue ==
  /\ EngReady
  /\ Len(views[1]) < MaxDepth
  /\ Tool_add_continue_frame(1)
  /\ UNCHANGED <<ctl, infos>>
  /\ EngDone([op |-> "add_continue_frame"])

EngEnterSerial ==
  /\ EngReady
  /\ Tool_enter_serial(1)
  /\ UNCHANGED <<ctl, infos>>
  /\ EngDone([op |-> "enter_serial", depth |-> Len(views[1])])

\* shadow_stack_t::pop() called by the client: the top frame is dropped
EngPop ==
  /\ EngReady
  /\ IF views[1] = <<>>
     THEN status' = AssertPop /\ views' = views
     ELSE status' = status /\ views' = [views EXCEPT ![1] = pop(@)]
  /\ UNCHANGED <<witness, reports, ctl, infos>>
  /\ EngDone([op |-> "pop"])

\* shadow_stack_t::push() called by the client: a default frame on top
EngPush ==
  /\ EngReady
  /\ Len(views[1]) < MaxDepth
  /\ views' = [views EXCEPT ![1] = push(@)]
  /\ UNCHANGED <<status, witness, reports, ctl, infos>>
  /\ EngDone([op |-> "push"])

\* other stacks handed to append_stack and reduce: an identity view, a view of
\* one frame, a view of two frames, and an identity view on which two
\* functions were entered
EngRightViews ==
  {[frames |-> identity, infos |-> <<>>],
   [frames |-> <<Frame(TRUE, {1}, {})>>, infos |-> <<>>],
   [frames |-> <<Frame(TRUE, {}, {1}), Frame(TRUE, {1}, {})>>, infos |-> <<>>],
   [frames |-> identity, infos |-> <<fn_info_frame_t(1), fn_info_frame_t(2)>>]}

\* shadow_stack_t::append_stack(oth) called by the client with a stack that
\* holds frames: oth's frames are copied to the end, oth is not destroyed
EngAppend ==
  \E oth \in {right.frames : right \in EngRightViews} \ {identity} :
    /\ EngReady
    /\ Len(views[1]) + Len(oth) <= MaxDepth
    /\ views' = [views EXCEPT ![1] = append_stack(@, oth)]
    /\ UNCHANGED <<status, witness, reports, ctl, infos>>
    /\ EngDone([op |-> "append_stack", right |-> oth])

\* reduce(view 1, right): append_stack, then the destructor of right
EngReduce ==
  \E right \in EngRightViews :
    /\ EngReady
    /\ Len(views[1]) + Len(right.frames) <= MaxDepth
    /\ views' = [views EXCEPT ![1] = append_stack(@, right.frames)]
    /\ status' = IF destruct_assert(right.frames, right.infos) # "ok"
                  THEN destruct_assert(right.frames, right.infos)
                  ELSE status
    /\ UNCHANGED <<witness, reports, ctl, infos>>
    /\ EngDone([op |-> "reduce", right |-> right.frames, infos |-> right.infos])

InitEngine ==
  /\ \/ views = ToolViews /\ infos = ToolInfos
     \/ views = [v \in ViewId |-> identity] /\ infos = [v \in ViewId |-> <<>>]
  /\ alive = ToolAlive
  /\ status = "ok"
  /\ witness = {}
  /\ lastev = [op |-> "init"]
  /\ reports = <<>>
  /\ nev = 0
  /\ script = <<>>
  /\ ctl = <<Context("root", 0)>>
  /\ pend = NoPend
  /\ tags = <<>>
  /\ racy = {}
  /\ orig = views
  /\ pc = <<>>

NextEngine ==
  \/ EngEnterFunc
  \/ EngAlloca
  \/ EngWrite
  \/ EngTask
  \/ EngJoin
  \/ EngExitFunc
  \/ EngContinue
  \/ EngEnterSerial
  \/ EngPop
  \/ EngPush
  \/ EngAppend
  \/ EngReduce

SpecEngine == InitEngine /\ [][NextEngine]_vars

\* --- soft-join reducer (the one-frame-identity variant of sstack.h)
AssertBackSoft == "Trying to back() from empty shadow stack!"
AssertOneFrame == "1 == right->frames.size()"

\* is_disjoint(small, large) of the soft-join variant: a yes/no answer
RECURSIVE softjoin_is_disjoint(_, _)
softjoin_is_disjoint(small, large) ==
  IF Cardinality(small) > Cardinality(large)
  THEN softjoin_is_disjoint(large, small)
  ELSE \A access \in small : access \notin large

\* an identity that builds a view without a frame
softjoin_identity_empty == <<>>

\* shadow_stack_t::identity of the soft-join variant: shadow_stack_t(), one frame
softjoin_identity == <<sp_frame_t>>

\* first assertion reduce reaches (the trace output calls right->back()), or "ok"
softjoin_reduce_assert(left, right) ==
  IF right = <<>> THEN AssertBackSoft
  ELSE IF Len(right) # 1 THEN AssertOneFrame
  ELSE IF left = <<>> THEN AssertBackSoft
  ELSE "ok"

\* soft-join reduce that checks the left frame's serial writes
softjoin_reduce_sw(left, right) ==
  LET rsw == merge_into(back(right).sw, back(right).pw).large
  IN [left |-> [left EXCEPT ![Len(left)].pw = merge_into(@, rsw).large],
      disjoint |-> softjoin_is_disjoint(back(left).sw, rsw),
      pw |-> back(left).pw,
      sw |-> rsw]

\* shadow_stack_t::reduce of the soft-join variant, on one-frame right views:
\*   merge_into(right.sw, right.pw); right.pw.clear();
\*   disjoint = is_disjoint(left.pw, right.sw); merge_into(left.pw, right.sw);
\* pw and sw are the two sets the race message prints.
softjoin_reduce(left, right) ==
  LET rsw == merge_into(back(right).sw, back(right).pw).large
  IN [left |-> [left EXCEPT ![Len(left)].pw = merge_into(@, rsw).large],
      disjoint |-> softjoin_is_disjoint(back(left).pw, rsw),
      pw |-> back(left).pw,
      sw |-> rsw]

ReduceB ==
  \E l \in ViewId, r \in ViewId :
    /\ status = "ok"
    /\ Adjacent(l, r)
    /\ IF softjoin_reduce_assert(views[l], views[r]) # "ok"
       THEN /\ status' = softjoin_reduce_assert(views[l], views[r])
            /\ UNCHANGED <<views, alive, reports>>
       ELSE LET res == softjoin_reduce(views[l], views[r])
            IN /\ views' = [views EXCEPT ![l] = res.left, ![r] = <<>>]
               /\ alive' = [alive EXCEPT ![r] = "destroyed"]
               /\ reports' = IF res.disjoint THEN reports
                             ELSE Append(reports, [phase |-> "REDUCE", pw |-> res.pw,
                                                   sw |-> res.sw, at |-> nev + 1])
               /\ status' = status
    /\ witness' = witness
    /\ Hook([op |-> "reduce", left |-> l, right |-> r])

\* Three views, each holding one task frame, reduced in either order
OneFrameViews == {<<Frame(FALSE, s, p)>> : s \in SUBSET Addr, p \in SUBSET Addr}

InitReduceB ==
  /\ views \in [ViewId -> OneFrameViews]
  /\ alive = [v \in ViewId |-> "live"]
  /\ orig = views
  /\ pc = <<>>
  /\ status = "ok"
  /\ witness = {}
  /\ lastev = [op |-> "init"]
  /\ reports = <<>>
  /\ nev = 0
  /\ script = <<>>
  /\ ctl = <<>>
  /\ pend = NoPend
  /\ tags = <<>>
  /\ racy = {}
  /\ infos = [v \in ViewId |-> <<>>]

NextReduceB == ReduceB

SpecReduceB == InitReduceB /\ [][NextReduceB]_vars

\* ------------------------------------ the soft-join engine called directly
AssertPopSoft == "Trying to pop() from empty shadow stack!"

\* first assertion that fires in join of the soft-join variant, or "ok"
softjoin_join_assert(fr) ==
  IF fr = <<>> THEN AssertPopSoft
  ELSE IF back(fr).is_continue THEN AssertTask
  ELSE IF Len(fr) = 1 THEN AssertBackSoft
  ELSE "ok"

\* enter_serial of the soft-join variant: while (back().is_continue) pop and
\* merge, with no test of the depth; then fold pw into sw. status is the
\* assertion of back() the call reaches, or "ok"; disjoint is the bool it
\* returns (all_disjoint).
RECURSIVE softjoin_enter_serial(_)
softjoin_enter_serial(fr) ==
  IF fr = <<>> THEN [frames |-> fr, status |-> AssertBackSoft, disjoint |-> TRUE]
  ELSE IF back(fr).is_continue
  THEN IF Len(fr) = 1
       THEN [frames |-> pop(fr), status |-> AssertBackSoft, disjoint |-> TRUE]
       ELSE LET r == softjoin_enter_serial(merge_top(fr, {}).frames)
            IN [r EXCEPT !.disjoint = merge_top(fr, {}).collisions = {} /\ @]
  ELSE [frames |-> [fr EXCEPT ![Len(fr)] =
                      [@ EXCEPT !.sw = merge_into(@, back(fr).pw).large, !.pw = {}]],
        status |-> "ok",
        disjoint |-> TRUE]

SoftReady(v) == status = "ok" /\ nev < MaxOps /\ alive[v] = "live"

SoftDone(ev) ==
  /\ lastev' = ev
  /\ nev' = nev + 1
  /\ UNCHANGED <<witness, reports, script, ctl, pend, tags, racy, orig, infos, pc>>

SoftTask ==
  \E v \in {1, 2} :
    /\ SoftReady(v)
    /\ Len(views[v]) < MaxDepth
    /\ views' = [views EXCEPT ![v] = add_task_frame(@)]
    /\ UNCHANGED <<status, alive>>
    /\ SoftDone([op |-> "add_task_frame", view |-> v])

SoftContinue ==
  \E v \in {1, 2} :
    /\ SoftReady(v)
    /\ Len(views[v]) < MaxDepth
    /\ views' = [views EXCEPT ![v] = add_continue_frame(@)]
    /\ UNCHANGED <<status, alive>>
    /\ SoftDone([op |-> "add_continue_frame", view |-> v])

SoftWrite ==
  \E v \in {1, 2}, addr \in Addr :
    /\ SoftReady(v)
    /\ IF views[v] = <<>>
       THEN status' = AssertBackSoft /\ views' = views
       ELSE status' = status /\ views' = [views EXCEPT ![v] = register_write(@, addr)]
    /\ alive' = alive
    /\ SoftDone([op |-> "register_write", view |-> v])

SoftJoin ==
  \E v \in {1, 2} :
    /\ SoftReady(v)
    /\ IF softjoin_join_assert(views[v]) # "ok"
       THEN status' = softjoin_join_assert(views[v]) /\ views' = views
       ELSE status' = status /\ views' = [views EXCEPT ![v] = merge_top(@, {}).frames]
    /\ alive' = alive
    /\ SoftDone(IF softjoin_join_assert(views[v]) # "ok"
                THEN [op |-> "join", view |-> v]
                ELSE [op |-> "join", view |-> v,
                      ret |-> merge_top(views[v], {}).collisions = {}])

SoftEnterSerial ==
  \E v \in {1, 2} :
    /\ SoftReady(v)
    /\ status' = softjoin_enter_serial(views[v]).status
    /\ views' = IF status' = "ok"
                THEN [views EXCEPT ![v] = softjoin_enter_serial(@).frames]
                ELSE views
    /\ alive' = alive
    /\ SoftDone(IF softjoin_enter_serial(views[v]).status # "ok"
                THEN [op |-> "enter_serial", view |-> v]
                ELSE [op |-> "enter_serial", view |-> v,
                      ret |-> softjoin_enter_serial(views[v]).disjoint])

\* shadow_stack_t::pop() called by the client: the top frame is dropped
SoftPop ==
  \E v \in {1, 2} :
    /\ SoftReady(v)
    /\ IF views[v] = <<>>
       THEN status' = AssertPopSoft /\ views' = views
       ELSE status' = status /\ views' = [views EXCEPT ![v] = pop(@)]
    /\ alive' = alive
    /\ SoftDone([op |-> "pop", view |-> v])

\* shadow_stack_t::push() called by the client: a default frame on top
SoftPush ==
  \E v \in {1, 2} :
    /\ SoftReady(v)
    /\ Len(views[v]) < MaxDepth
    /\ views' = [views EXCEPT ![v] = push(@)]
    /\ UNCHANGED <<status, alive>>
    /\ SoftDone([op |-> "push", view |-> v])

\* the runtime creates a second view
SoftIdentity ==
  /\ status = "ok"
  /\ alive[2] = "none"
  /\ views' = [views EXCEPT ![2] = softjoin_identity]
  /\ alive' = [alive EXCEPT ![2] = "live"]
  /\ status' = status
  /\ SoftDone([op |-> "identity", view |-> 2])

InitSoftEngine ==
  /\ views = [v \in ViewId |-> IF v = 1 THEN softjoin_identity ELSE <<>>]
  /\ alive = ToolAlive
  /\ orig = views
  /\ pc = <<>>
  /\ status = "ok"
  /\ witness = {}
  /\ lastev = [op |-> "init"]
  /\ reports = <<>>
  /\ nev = 0
  /\ script = <<>>
  /\ ctl = <<>>
  /\ pend = NoPend
  /\ tags = <<>>
  /\ racy = {}
  /\ infos = [v \in ViewId |-> <<>>]

NextSoftEngine ==
  \/ SoftTask
  \/ SoftContinue
  \/ SoftWrite
  \/ SoftJoin
  \/ SoftEnterSerial
  \/ SoftPop
  \/ SoftPush
  \/ SoftIdentity
  \/ ReduceB

SpecSoftEngine == InitSoftEngine /\ [][NextSoftEngine]_vars

\* --------------------------------------- three views reduced in both orders
\* frames told apart by kind and content
MonoidFrames == {Frame(FALSE, {1}, {}), Frame(TRUE, {}, {1})}

\* one reduce of two neighbouring live views
MonoidReduce ==
  \E l \in ViewId, r \in ViewId :
    /\ status = "ok"
    /\ Adjacent(l, r)
    /\ Tool_reduce(l, r)
    /\ Hook([op |-> "reduce", left |-> l, right |-> r])

\* three views, any of them possibly as identity left it
InitMonoid ==
  /\ views \in [ViewId -> SeqsUpTo(MonoidFrames, MaxViewFrames)]
  /\ alive = [v \in ViewId |-> "live"]
  /\ orig = views
  /\ pc = <<>>
  /\ status = "ok"
  /\ witness = {}
  /\ lastev = [op |-> "init"]
  /\ reports = <<>>
  /\ nev = 0
  /\ script = <<>>
  /\ ctl = <<>>
  /\ pend = NoPend
  /\ tags = <<>>
  /\ racy = {}
  /\ infos = [v \in ViewId |-> <<>>]

SpecMonoid == InitMonoid /\ [][MonoidReduce]_vars

\* ------------------------------------------------- two workers, two views
\* A spawned task and its stolen continuation run at the same time: the victim
\* goes on with the task on the tool's view 1, the thief runs the continuation
\* on view 2, which the runtime creates by identity when it steals; when both
\* are done the runtime reduces view 2 into view 1 and the sync follows.
VictimStreams ==
  UNION {{<<Ev("detach", 0, 0), Ev("task", 0, 0), Ev("before_store", 0, x),
            Ev("task_exit", 0, 0)>>,
          <<Ev("func_entry", 0, 0), Ev("before_store", 0, x), Ev("func_exit", 0, 0),
            Ev("detach", 0, 0), Ev("task", 0, 0), Ev("before_store", 0, x),
            Ev("task_exit", 0, 0)>>,
          <<Ev("before_store", 0, x), Ev("detach", 0, 0), Ev("task", 0, 0),
            Ev("func_entry", 0, 0), Ev("before_store", 0, x),
            Ev("func_exit", 0, 0), Ev("task_exit", 0, 0)>>} : x \in ScenarioAddr}

ThiefStreams ==
  UNION {{<<Ev("detach_continue", 0, 0), Ev("before_store", 0, y),
            Ev("before_sync", 0, 0)>>,
          <<Ev("detach_continue", 0, 0), Ev("func_entry", 0, 0),
            Ev("before_store", 0, y), Ev("func_exit", 0, 0),
            Ev("func_entry", 0, 0), Ev("before_store", 0, y),
            Ev("func_exit", 0, 0), Ev("before_sync", 0, 0)>>,
          <<Ev("detach_continue", 0, 0), Ev("detach", 0, 0), Ev("task", 0, 0),
            Ev("before_store", 0, y), Ev("task_exit", 0, 0),
            Ev("detach_continue", 0, 0), Ev("before_sync", 0, 0)>>} :
           y \in ScenarioAddr}

\* the victim's detach, after which its continuation can be stolen
StealPoint(s) ==
  CHOOSE i \in DOMAIN s : s[i].op = "detach" /\ \A j \in 1..(i - 1) : s[j].op # "detach"

WorkerDone(ev) ==
  /\ lastev' = ev
  /\ nev' = nev + 1
  /\ UNCHANGED <<script, ctl, pend, tags, racy, orig, infos>>

\* one hook of the victim, on view 1
VictimStep ==
  /\ status = "ok"
  /\ pc[1] < Len(script[1])
  /\ csi_dispatch(1, script[1][pc[1] + 1])
  /\ alive' = alive
  /\ pc' = [pc EXCEPT ![1] = @ + 1]
  /\ WorkerDone(script[1][pc[1] + 1])

\* the runtime steals the continuation: identity on the thief's view
WorkerSteal ==
  /\ status = "ok"
  /\ alive[2] = "none"
  /\ pc[1] >= StealPoint(script[1])
  /\ views' = [views EXCEPT ![2] = identity]
  /\ alive' = [alive EXCEPT ![2] = "live"]
  /\ UNCHANGED <<status, witness, reports, pc>>
  /\ WorkerDone(Ev("identity", 0, 0))

\* one hook of the thief, on view 2
ThiefStep ==
  /\ status = "ok"
  /\ alive[2] = "live"
  /\ pc[2] < Len(script[2])
  /\ csi_dispatch(2, script[2][pc[2] + 1])
  /\ alive' = alive
  /\ pc' = [pc EXCEPT ![2] = @ + 1]
  /\ WorkerDone(script[2][pc[2] + 1])

\* both strands are over: the runtime reduces the thief's view into view 1
WorkerReduce ==
  /\ status = "ok"
  /\ alive[2] = "live"
  /\ pc[1] = Len(script[1])
  /\ pc[2] = Len(script[2])
  /\ Tool_reduce(1, 2)
  /\ pc' = pc
  /\ WorkerDone(Ev("reduce", 0, 0))

\* the sync of the region, on the reduced view
WorkerSync ==
  /\ status = "ok"
  /\ lastev.op = "reduce"
  /\ csi_after_sync(1, 0)
  /\ UNCHANGED <<alive, pc>>
  /\ WorkerDone(Ev("after_sync", 0, 0))

InitWorkers ==
  /\ views = ToolViews
  /\ alive = ToolAlive
  /\ infos = ToolInfos
  /\ orig = views
  /\ script \in {<<v, t>> : v \in VictimStreams, t \in ThiefStreams}
  /\ pc = <<0, 0>>
  /\ status = "ok"
  /\ witness = {}
  /\ lastev = Ev("init", 0, 0)
  /\ reports = <<>>
  /\ nev = 0
  /\ ctl = <<>>
  /\ pend = NoPend
  /\ tags = <<>>
  /\ racy = {}

NextWorkers == VictimStep \/ WorkerSteal \/ ThiefStep \/ WorkerReduce \/ WorkerSync

SpecWorkers == InitWorkers /\ [][NextWorkers]_vars

\* ------------------------------------------- the set helpers on their own
\* keys of the maps handed to is_disjoint and merge_into
SetAddr == 1..NumSetAddr

\* merge_into(dst, src) on dst = orig.A and src = orig.B
ApplyMerge ==
  /\ lastev.op = "init"
  /\ LET r == merge_into(orig.A, orig.B)
     IN lastev' = [op |-> "merge_into", dst |-> r.large, src |-> r.small]
  /\ UNCHANGED <<views, alive, status, witness, reports, nev, script, ctl, pend,
                 tags, racy, orig, infos, pc>>

\* is_disjoint(A, B, intersect) and is_disjoint(B, A, intersect), each on
\* intersect = orig.W; ret is the bool the first call returns
ApplyDisjoint ==
  /\ lastev.op = "init"
  /\ lastev' = [op |-> "is_disjoint",
                intersect |-> is_disjoint(orig.A, orig.B, orig.W),
                swapped |-> is_disjoint(orig.B, orig.A, orig.W),
                ret |-> is_disjoint(orig.A, orig.B, orig.W) = {}]
  /\ UNCHANGED <<views, alive, status, witness, reports, nev, script, ctl, pend,
                 tags, racy, orig, infos, pc>>

InitSets ==
  /\ orig \in [A : SUBSET SetAddr, B : SUBSET SetAddr, W : SUBSET SetAddr]
  /\ pc = <<>>
  /\ views = [v \in ViewId |-> <<>>]
  /\ alive = [v \in ViewId |-> "none"]
  /\ status = "ok"
  /\ witness = {}
  /\ lastev = [op |-> "init"]
  /\ reports = <<>>
  /\ nev = 0
  /\ script = <<>>
  /\ ctl = <<>>
  /\ pend = NoPend
  /\ tags = <<>>
  /\ racy = {}
  /\ infos = [v \in ViewId |-> <<>>]

NextSets == ApplyMerge \/ ApplyDisjoint

SpecSets == InitSets /\ [][NextSets]_vars

\* ------------------------------------------------------- process teardown
\* the static unique_ptr tool is destroyed when the process exits, which runs
\* ~shadow_stack_t on the tool's view: the frames assert, then the infos assert
Teardown ==
  /\ status = "ok"
  /\ ~Scripted
  /\ status' = IF destruct_assert(views[1], infos[1]) # "ok"
                THEN destruct_assert(views[1], infos[1])
                ELSE "exited"
  /\ alive' = IF status' = "exited" THEN [alive EXCEPT ![1] = "destroyed"] ELSE alive
  /\ lastev' = Ev("teardown", 0, 0)
  /\ UNCHANGED <<views, witness, reports, nev, script, ctl, pend, tags, racy,
                 orig, infos, pc>>

NextTeardown == Next \/ Teardown

SpecTeardown == Init /\ [][NextTeardown]_vars

\* ------------------------------------------------------------- claims
\* the last callback ran to completion on a free-running stream
Ran(op) == lastev'.op = op /\ status' = "ok" /\ ~Scripted

\* C1 (race completeness): when after_sync(sr) closes an open sync region,
\* every address written both by an exited task of the region and, later, by
\* a strand logically parallel to it has appeared in a witness by then, at the
\* latest in the witness of this enter_serial.
C1_RaceCompleteness ==
  [][(Ran("after_sync") /\ InRegion(lastev'.sr))
       => TopReg(cur).owed \subseteq witness']_vars

\* C2 (no false positives): every address of a witness returned by join or
\* enter_serial was written by two logically-parallel strands; a serial
\* program (function calls and stores only) never gets a non-empty witness.
C2_NoFalsePositive == ~Scripted => witness \subseteq racy

\* C5 (sync-region selectivity): every frame popped by the enter_serial of
\* after_sync(sr) is a Continuation frame of region sr; Continuation frames
\* of another region stay on the stack.
C5_PopsOnlyOwnRegion ==
  [][Ran("after_sync")
       => \A i \in (Len(views'[1]) + 1)..Len(views[1]) : tags[i] = lastev'.sr]_vars

\* C6 (stack balance): a task_exit leaves the depth the stack had before the
\* task frame was pushed, and the after_sync closing a region leaves the depth
\* the stack had before the region's first detach.
C6_StackBalance ==
  [][/\ Ran("task_exit") => Len(views'[1]) = cur.depth0
     /\ (Ran("after_sync") /\ InRegion(lastev'.sr))
          => Len(views'[1]) = TopReg(cur).depth0]_vars

C4_S3_ContinuationRace ==
  \A x \in ScenarioAddr, y \in ScenarioAddr, sr \in SyncReg :
    script = S3(x, y, sr)
      => /\ status = "ok"
         /\ nev < 7 => reports = <<>>
         /\ nev = 7 => reports = IF x = y
                                 THEN <<[phase |-> "SYNC", addrs |-> {x}, at |-> 7]>>
                                 ELSE <<>>

C4_Witness ==
  /\ script = S3(66, 66, 0)
  /\ nev = 7
  /\ reports = <<[phase |-> "SYNC", addrs |-> {66}, at |-> 7]>>

\* addresses the soft-join reducer has found racing so far
ReducerRaces == UNION {reports[i].pw \cap reports[i].sw : i \in DOMAIN reports}

RacesOf(res) == IF res.disjoint THEN {} ELSE res.pw \cap res.sw

\* (a reduce b) reduce c
LeftFirst(o) ==
  LET r1 == softjoin_reduce(o[1], o[2])
      r2 == softjoin_reduce(r1.left, o[3])
  IN [view |-> r2.left, races |-> RacesOf(r1) \cup RacesOf(r2)]

\* a reduce (b reduce c)
RightFirst(o) ==
  LET r1 == softjoin_reduce(o[2], o[3])
      r2 == softjoin_reduce(o[1], r1.left)
  IN [view |-> r2.left, races |-> RacesOf(r1) \cup RacesOf(r2)]

AllReduced == alive = [v \in ViewId |-> IF v = 1 THEN "live" ELSE "destroyed"]

\* C7 (soft-join reduce is associative): once the three one-frame views are
\* reduced to one, the surviving view and the race addresses reported are the
\* ones the other order of the two reductions produces.
C7_SoftJoinAssociative ==
  AllReduced
    => [view |-> views[1], races |-> ReducerRaces]
         = IF lastev.right = 3 THEN RightFirst(orig) ELSE LeftFirst(orig)

\* C8 as stated (S6, soft-join): left SW = {b} with PW empty, right SW = {b}:
\* reduce(left, right) reports a race on b.
C8_S6_RaceOnSerialWrite ==
  \A b \in Addr :
    (/\ nev = 1 /\ lastev.left = 1 /\ lastev.right = 2
     /\ orig[1] = <<Frame(FALSE, {b}, {})>>
     /\ orig[2] = <<Frame(FALSE, {b}, {})>>)
      => b \in ReducerRaces

\* C8 amended: with b in the left frame's PW and the right frame's SW,
\* reduce(left, right) reports a race on b; with b only in the left frame's SW
\* (PW empty) it reports nothing.
C8_S6_RaceOnParallelWrite ==
  \A b \in Addr :
    (/\ nev = 1 /\ lastev.left = 1 /\ lastev.right = 2
     /\ orig[2] = <<Frame(FALSE, {b}, {})>>)
      => /\ status = "ok"
         /\ orig[1] = <<Frame(FALSE, {}, {b})>> => b \in ReducerRaces
         /\ orig[1] = <<Frame(FALSE, {b}, {})>> => reports = <<>>

C8_Witness ==
  /\ nev = 1 /\ lastev.left = 1 /\ lastev.right = 2
  /\ orig[1] = <<Frame(FALSE, {}, {1})>>
  /\ orig[2] = <<Frame(FALSE, {1}, {})>>
  /\ Len(reports) = 1

\* C9 as stated (S6, concatenate): left SW = {b}, right SW = {b}: reduce reports
\* nothing and b is in the witness of the next join on the merged stack.
C9_S6_JoinSeesSerialWrite ==
  \A b \in Addr :
    (/\ orig[1] = <<Frame(FALSE, {b}, {})>>
     /\ orig[2] = <<Frame(FALSE, {b}, {})>>)
      => /\ lastev.op = "reduce" => reports = <<>>
         /\ lastev.op = "join" => b \in witness

\* C9 amended: with b in the left frame's PW and the right frame's SW, reduce
\* reports nothing and b is in the witness of the next join on the merged
\* stack; with b only in the left frame's SW that witness is empty.
C9_S6_JoinSeesParallelWrite ==
  \A b \in Addr :
    orig[2] = <<Frame(FALSE, {b}, {})>>
      => /\ status = "ok"
         /\ lastev.op = "reduce" => (reports = <<>> /\ witness = {})
         /\ \A s \in SUBSET Addr :
              (orig[1] = <<Frame(FALSE, s, {b})>> /\ lastev.op = "join")
                => (b \in witness /\ Len(reports) = 1 /\ reports[1].at = 2)
         /\ (orig[1] = <<Frame(FALSE, {b}, {})>> /\ lastev.op = "join")
              => (witness = {} /\ reports = <<>>)

C9_Witness ==
  /\ orig[1] = <<Frame(FALSE, {}, {1})>>
  /\ orig[2] = <<Frame(FALSE, {1}, {})>>
  /\ lastev.op = "join"
  /\ witness = {1}

\* C10 (concatenating reduce consumes the right view): reduce(left, right)
\* completes for a right view of any length, leaves in left the old left
\* frames followed by the old right frames, and destroys right.
C10_ReduceConsumesRight ==
  lastev.op = "reduce"
    => /\ status = "ok"
       /\ views[lastev.left] = orig[lastev.left] \o orig[lastev.right]
       /\ alive[lastev.right] = "destroyed"

\* race addresses the tool has reported so far
ReportedRaces == UNION {reports[i].addrs : i \in DOMAIN reports}

\* the stream of a stolen run that has come to its end, normally or not
StolenRunOver ==
  /\ \E i \in DOMAIN script : script[i].op = "identity"
  /\ (nev = Len(script) \/ status # "ok")

\* C11 (steal transparency): when a region's continuation has run on a fresh
\* identity view and reduce was called before the region's after_sync, the run
\* ends normally with the frames and the reported race addresses that the same
\* hooks produce on a single view.
C11_StealTransparent ==
  StolenRunOver
    => LET single == csi_run(tool_state(<<sp_frame_t>>), script)
       IN /\ status = "ok"
          /\ views[1] = single.frames
          /\ ReportedRaces = single.races

\* a free-running hook of the tool has just returned normally
Stepped == status' = "ok" /\ ~Scripted /\ nev' = nev + 1

\* the frames that are on the stack before and after a step
Kept == 1..(IF Len(views[1]) < Len(views'[1]) THEN Len(views[1]) ELSE Len(views'[1]))

\* C12 as stated (monotonicity within a frame): while a frame is on the stack
\* no hook removes an address from its SW or from its PW.
C12_FrameSetsOnlyGrow ==
  [][Stepped => \A i \in Kept : /\ views[1][i].sw \subseteq views'[1][i].sw
                                /\ views[1][i].pw \subseteq views'[1][i].pw]_vars

\* C12 amended: while a frame is on the stack no hook removes an address from
\* its SW or from SW \cup PW; PW loses addresses only in the enter_serial of an
\* after_sync, which leaves the PW of the frame then on top empty, its
\* addresses moved into SW.
C12_WritesStayInFrame ==
  [][Stepped =>
       \A i \in Kept :
         /\ views[1][i].sw \subseteq views'[1][i].sw
         /\ (views[1][i].sw \cup views[1][i].pw)
              \subseteq (views'[1][i].sw \cup views'[1][i].pw)
         /\ \/ views[1][i].pw \subseteq views'[1][i].pw
            \/ /\ lastev'.op = "after_sync"
               /\ i = Len(views'[1])
               /\ views'[1][i].pw = {}]_vars

C12_Witness ==
  /\ ~Scripted /\ status = "ok" /\ lastev.op = "after_sync"
  /\ reports # <<>>
  /\ reports[Len(reports)] = [phase |-> "SYNC", addrs |-> witness, at |-> nev]
  /\ back(views[1]).pw = {}
  /\ witness \subseteq back(views[1]).sw

C14_JoinPostcondition ==
  [][(Ran("task_exit") \/ Ran("func_exit")) =>
       LET fr == views[1]
           n == Len(fr)
           W == fr[n].sw \cup fr[n].pw
       IN /\ n >= 2
          /\ ~fr[n].is_continue
          /\ views'[1] = [SubSeq(fr, 1, n - 1) EXCEPT ![n - 1].pw = @ \cup W]
          /\ witness' = fr[n - 1].pw \cap W
          /\ join_returns(fr, {}) <=> (witness' = {})
          /\ reports' = IF witness' = {} THEN reports
                        ELSE Append(reports, [phase |-> "TASK EXIT",
                                              addrs |-> witness', at |-> nev'])]_vars

C14_Witness ==
  /\ ~Scripted /\ status = "ok" /\ lastev.op = "task_exit"
  /\ witness # {}
  /\ witness \subseteq back(views[1]).pw
  /\ reports # <<>> /\ reports[Len(reports)].at = nev

\* what enter_serial is to leave of a stack
Writes(f) == f.sw \cup f.pw

Above(fr, j) == UNION {Writes(fr[i]) : i \in (j + 1)..Len(fr)}

\* length of the maximal run of Continuation frames on top, bottom frame excluded
TopRun(fr) ==
  CHOOSE k \in 0..(Len(fr) - 1) :
    /\ \A j \in (Len(fr) - k + 1)..Len(fr) : fr[j].is_continue
    /\ (k = Len(fr) - 1 \/ ~fr[Len(fr) - k].is_continue)

\* C15 (enter_serial postcondition): enter_serial on a stack that holds a
\* frame returns normally after popping the maximal run of Continuation frames
\* on top (never the bottom frame, even when it is a Continuation frame); each
\* popped frame adds (PW of the frame below) \cap (its writes and those merged
\* into it) to the witness; on return the frames below the run are as they
\* were, except that the top frame has an empty PW and as SW its old SW, its
\* old PW and the writes of every popped frame.
C15_EnterSerialPostcondition ==
  [][(lastev'.op = "enter_serial" /\ views[1] # <<>>) =>
       LET fr == views[1]
           n == Len(fr) - TopRun(fr)
       IN /\ status' = "ok"
          /\ witness' = UNION {fr[j - 1].pw \cap (Writes(fr[j]) \cup Above(fr, j)) :
                                 j \in (n + 1)..Len(fr)}
          /\ views'[1] = [SubSeq(fr, 1, n) EXCEPT
                            ![n].sw = Writes(fr[n]) \cup Above(fr, n),
                            ![n].pw = {}]]_vars

\* a sync on three frames that popped two Continuation frames holding writes
\* down to a bottom Continuation frame, with a witness that is part of what
\* the frames held
C15_Witness ==
  /\ lastev.op = "enter_serial"
  /\ status = "ok"
  /\ lastev.depth = 3
  /\ Len(views[1]) = 1
  /\ views[1][1].is_continue
  /\ views[1][1].pw = {}
  /\ views[1][1].sw = Addr
  /\ witness # {}
  /\ witness # Addr

\* C16 (scenario S4, nested syncs): with a race on x in the inner region 1 and
\* no conflicting write in the enclosing region 0, exactly one race is
\* reported, at the inner after_sync(1) (event 9 of S4a, event 12 of S4b);
\* the later task_exit and after_sync(0) report nothing.
C16_S4_ReportedOnceAtInnerSync ==
  \A x \in NestedAddr : \A y \in NestedAddr \ {x} :
    /\ script = S4a(x, y)
         => /\ status = "ok"
            /\ reports = IF nev < 9 THEN <<>>
                         ELSE <<[phase |-> "SYNC", addrs |-> {x}, at |-> 9]>>
    /\ script = S4b(x, y)
         => /\ status = "ok"
            /\ reports = IF nev < 12 THEN <<>>
                         ELSE <<[phase |-> "SYNC", addrs |-> {x}, at |-> 12]>>

C16_Witness ==
  /\ script = S4a(10, 11) /\ nev = 13 /\ lastev.op = "after_sync"
  /\ reports = <<[phase |-> "SYNC", addrs |-> {10}, at |-> 9]>>

\* C17 (scenario S1, no race): no join or enter_serial of the stream returns a
\* witness, no operation aborts, and at the end the stack holds at most one
\* frame, so that its destructor succeeds.
C17_S1_NoRace ==
  script = S1
    => /\ status = "ok"
       /\ witness = {}
       /\ reports = <<>>
       /\ nev = Len(S1) => (Len(views[1]) <= 1 /\ destruct_assert(views[1], infos[1]) = "ok")

C17_Witness ==
  /\ script = S1 /\ nev = Len(S1) /\ lastev.op = "func_exit"
  /\ views[1] = <<[sp_frame_t EXCEPT !.pw = {256, 512, 768}]>>

\* C18 (stack-local erasure): when exit_func returns, the frame on top holds,
\* in SW or in PW, no address of the exited function's [low_mark, init_sp]
\* that was written while the function was open, so that the frame can carry
\* none into a later witness.
C18_ExitErasesLocals ==
  [][(lastev'.op = "exit_func" /\ status' = "ok")
       => (cur.w \cap erased_range(back(infos[1])))
            \cap Writes(back(views'[1])) = {}]_vars

\* C20 (task_exit on an empty stack is not fatal): a join on a stack of zero
\* frames, as on a fresh identity view, returns normally and leaves the stack
\* as it was.
C20_JoinOnEmptyStackReturns ==
  [][(lastev'.op = "join" /\ views[1] = <<>>)
       => (status' = "ok" /\ views'[1] = <<>>)]_vars

\* C19 (scenario S5, stack-local filter through the callbacks): after
\* after_alloca(addr, 16), a store to addr + off inside the function and
\* func_exit, a store to the same address by the parallel continuation leads
\* to no race report on that address.
C19_S5_LocalNotReported ==
  \A a \in AllocaBase, off \in {0, 8}, sr \in SyncReg :
    script = S5(a, 16, off, a + off, sr) => (a + off) \notin ReportedRaces

\* C21 (a sync with no Continuation frame on top is tolerated): enter_serial
\* called on a stack whose top is not a Continuation frame, a stack of one
\* frame or a fresh identity view pops nothing, returns an empty witness,
\* folds the top frame's PW into its SW, clears PW, and does not abort.
C21_UnmatchedSyncTolerated ==
  [][(/\ lastev'.op = "enter_serial"
      /\ (Len(views[1]) <= 1 \/ ~back(views[1]).is_continue))
       => /\ status' = "ok"
          /\ witness' = {}
          /\ views'[1] = [views[1] EXCEPT ![Len(views[1])] =
                            [@ EXCEPT !.sw = @ \cup back(views[1]).pw,
                                      !.pw = {}]]]_vars

\* C22 (join requires a Task frame on top): a join that finds a Continuation
\* frame on top aborts on "Expected task frame in join!" and writes no report;
\* a join that returns normally has popped a Task frame.
C22_JoinNeedsTaskFrame ==
  [][lastev'.op = "join" =>
       /\ (views[1] # <<>> /\ back(views[1]).is_continue)
            => (status' = AssertTask /\ reports' = reports)
       /\ status' = "ok"
            => (/\ Len(views[1]) >= 2
                /\ ~back(views[1]).is_continue
                /\ Len(views'[1]) = Len(views[1]) - 1)]_vars

C22_Witness ==
  /\ lastev.op = "join"
  /\ status = AssertTask
  /\ Len(views[1]) >= 2
  /\ back(views[1]).is_continue
  /\ Writes(back(views[1])) # {}

\* every task and function entered has been joined and every region synced
Balanced == Len(ctl) = 1 /\ ~HasRegs(cur) /\ pend = NoPend

C24_RaceReportedNotFatal ==
  [][((Ran("task_exit") \/ Ran("func_exit") \/ Ran("after_sync")))
       => LET sync == lastev'.op = "after_sync"
              fr == views[1]
              to == views'[1]
              gone == UNION {Writes(fr[i]) : i \in (Len(to) + 1)..Len(fr)}
          IN /\ reports' = IF witness' = {} THEN reports
                           ELSE Append(reports,
                                  [phase |-> IF sync THEN "SYNC" ELSE "TASK EXIT",
                                   addrs |-> witness', at |-> nev'])
             /\ to = IF sync THEN enter_serial(fr, {}).frames
                     ELSE join(fr, {}).frames
             /\ Len(to) >= 1
             /\ Len(to) <= Len(fr)
             /\ ~sync => Len(to) = Len(fr) - 1
             /\ gone \subseteq Writes(back(to))
             /\ \A i \in 1..(Len(to) - 1) : to[i] = fr[i]]_vars

\* a race reported at a sync, and a store processed after it
C24_Witness ==
  /\ status = "ok"
  /\ ~Scripted
  /\ Len(reports) = 1
  /\ reports[1].phase = "SYNC"
  /\ reports[1].addrs # {}
  /\ reports[1].at < nev
  /\ lastev.op = "before_store"
  /\ lastev.addr \in back(views[1]).sw

\* every address the race messages written by this step print
PrintedBy(old, new) ==
  UNION {new[i].pw \cup new[i].sw : i \in (Len(old) + 1)..Len(new)}

\* C25 (soft-join reduce): reduce(left, right) needs a one-frame right view;
\* it reports exactly the addresses of left.top.PW \cap (right.top.SW \cup
\* right.top.PW), makes left.top.PW the union of the three sets, leaves left's
\* depth, left.top.SW and the lower frames of left alone, and destroys right.
C25_SoftJoinPostcondition ==
  [][lastev'.op = "reduce" =>
       LET left == views[lastev'.left]
           right == views[lastev'.right]
           rw == Writes(back(right))
           after == views'[lastev'.left]
       IN /\ Len(right) # 1 => status' # "ok"
          /\ status' = "ok" =>
               /\ PrintedBy(reports, reports') = back(left).pw \cap rw
               /\ back(after).pw = back(left).pw \cup rw
               /\ back(after).sw = back(left).sw
               /\ Len(after) = Len(left)
               /\ \A i \in 1..(Len(left) - 1) : after[i] = left[i]
               /\ views'[lastev'.right] = <<>>
               /\ alive'[lastev'.right] = "destroyed"]_vars

\* C26 (a ShadowStack is never empty): in every state that has not aborted
\* every live view, one just created by identity included, holds at least one
\* frame.
C26_ViewNeverEmpty ==
  status = "ok" => \A v \in ViewId : alive[v] = "live" => Len(views[v]) >= 1

\* C27 (register_write): a store inserts its address into the SW of the top
\* frame and changes nothing else: not the top frame's PW or kind, not the
\* depth, not any other frame, no witness and no report; a store to an address
\* already in that SW leaves the stack as it was.
C27_RegisterWriteEffect ==
  [][Ran("before_store") =>
       LET fr == views[1]
           n == Len(fr)
           addr == lastev'.addr
       IN /\ n >= 1
          /\ Len(views'[1]) = n
          /\ views'[1][n].sw = fr[n].sw \cup {addr}
          /\ views'[1][n].pw = fr[n].pw
          /\ views'[1][n].is_continue = fr[n].is_continue
          /\ \A i \in 1..(n - 1) : views'[1][i] = fr[i]
          /\ addr \in fr[n].sw => views'[1] = fr
          /\ reports' = reports]_vars

\* a store on top of a stack whose lower frames do not hold the address
C27_Witness ==
  /\ status = "ok"
  /\ ~Scripted
  /\ lastev.op = "before_store"
  /\ Len(views[1]) >= 2
  /\ lastev.addr \in back(views[1]).sw
  /\ back(views[1]).pw # {}
  /\ lastev.addr \notin back(views[1]).pw
  /\ views[1][1].sw # {}
  /\ \A i \in 1..(Len(views[1]) - 1) : lastev.addr \notin views[1][i].sw

\* C28 (union_into guarantee): after merge_into(dst, src) on dst = A and
\* src = B, whatever their sizes, dst holds exactly A \cup B and src holds a
\* subset of A \cup B.
C28_MergeIntoIsUnion ==
  lastev.op = "merge_into" =>
    /\ lastev.dst = orig.A \cup orig.B
    /\ lastev.src \subseteq orig.A \cup orig.B

\* the operands are swapped, and neither contains the other
C28_Witness ==
  /\ lastev.op = "merge_into"
  /\ Cardinality(orig.B) > Cardinality(orig.A)
  /\ ~(orig.A \subseteq orig.B)
  /\ lastev.src = orig.A
  /\ lastev.dst # orig.B

\* C29 (witnessing intersection): is_disjoint(A, B, witness) adds to witness
\* exactly the addresses of A \cap B, and adds the same addresses when called
\* as is_disjoint(B, A, witness), whichever operand is smaller.
C29_WitnessIsIntersection ==
  lastev.op = "is_disjoint" =>
    /\ lastev.intersect = orig.W \cup (orig.A \cap orig.B)
    /\ lastev.swapped = lastev.intersect
    /\ lastev.ret <=> (orig.W = {} /\ orig.A \cap orig.B = {})

\* a larger first operand, a common address, and a witness that was not empty
C29_Witness ==
  /\ lastev.op = "is_disjoint"
  /\ Cardinality(orig.A) > Cardinality(orig.B)
  /\ orig.A \cap orig.B # {}
  /\ orig.W # {}
  /\ orig.W \cap orig.A \cap orig.B = {}
  /\ lastev.intersect = orig.W \cup (orig.A \cap orig.B)

\* what each worker's hooks make of its own view, whatever the other did
VictimRun == csi_run(tool_state(orig[1]), SubSeq(script[1], 1, pc[1]))

ThiefRun == csi_run(tool_state(identity), SubSeq(script[2], 1, pc[2]))

\* the views, the reports and the outcome are a function of how far each
\* worker has got and of whether reduce and the sync have run
WorkersDetermined ==
  LET joined == append_stack(VictimRun.frames, ThiefRun.frames)
      synced == enter_serial(joined, {})
  IN CASE alive[2] = "none" ->
            /\ views[1] = VictimRun.frames
            /\ views[2] = <<>>
            /\ ReportedRaces = VictimRun.races
            /\ status = "ok"
       [] alive[2] = "live" /\ lastev.op # "reduce" ->
            /\ views[1] = VictimRun.frames
            /\ views[2] = ThiefRun.frames
            /\ ReportedRaces = VictimRun.races \cup ThiefRun.races
            /\ status = "ok"
       [] lastev.op = "reduce" ->
            /\ views[1] = joined
            /\ ReportedRaces = VictimRun.races \cup ThiefRun.races
            /\ status = destruct_assert(ThiefRun.frames, infos[2])
            /\ status = "ok" => views[2] = <<>>
       [] OTHER ->
            /\ views[1] = synced.frames
            /\ views[2] = <<>>
            /\ witness = synced.collisions
            /\ ReportedRaces = VictimRun.races \cup ThiefRun.races \cup synced.collisions
            /\ status = "ok"

\* C30 (view isolation): a hook of one worker leaves the other worker's view
\* unchanged, and in every interleaving of the two workers the views before
\* reduce, the view reduce and the sync produce and the reported race
\* addresses are the same.
C30_ViewIsolation ==
  /\ [][/\ pc'[1] # pc[1] => views'[2] = views[2]
        /\ pc'[2] # pc[2] => views'[1] = views[1]]_vars
  /\ []WorkersDetermined

\* both workers have reported, the views were reduced and the sync has run
C30_Witness ==
  /\ lastev.op = "after_sync"
  /\ status = "ok"
  /\ pc = <<Len(script[1]), Len(script[2])>>
  /\ Len(reports) >= 3
  /\ witness # {}
  /\ Len(views[1]) = 1

\* C31 (the concatenating reduce is a monoid on frame sequences): when both
\* reductions of three views complete, the surviving view holds the frames of
\* the three views in order, whichever pair was reduced first; a reduce with an
\* identity view on the right leaves left's frames unchanged, and one with an
\* identity view on the left leaves exactly right's frames.
C31_ReduceIsMonoid ==
  /\ (AllReduced /\ status = "ok")
       => views[1] = orig[1] \o orig[2] \o orig[3]
  /\ (lastev.op = "reduce" /\ nev = 1 /\ status = "ok")
       => /\ orig[lastev.right] = identity
             => views[lastev.left] = orig[lastev.left]
          /\ orig[lastev.left] = identity
             => views[lastev.left] = orig[lastev.right]

\* right-first reduction of a two-frame view, an identity view and a one-frame view
C31_Witness ==
  /\ AllReduced
  /\ status = "ok"
  /\ lastev.left = 1
  /\ lastev.right = 2
  /\ Len(orig[1]) = 2
  /\ orig[2] = identity
  /\ Len(orig[3]) = 1
  /\ Len(views[1]) = 3

\* every address recorded in a stack
AllWrites(fr) == UNION {Writes(fr[i]) : i \in DOMAIN fr}

\* C32 (no write is lost by a merge): join and enter_serial leave the set of
\* addresses recorded in the stack unchanged, as do the pushes; register_write
\* adds exactly the written address; reduce (and append_stack, its copying
\* step) makes the left view's set the union of both views' sets; of the
\* engine's operations only exit_func removes addresses. The helper pop(),
\* which join and enter_serial call before they merge, drops the top frame
\* with its addresses when a client calls it on its own.
C32_NoWriteLost ==
  [][status' = "ok" =>
       LET before == AllWrites(views[1])
           after == AllWrites(views'[1])
       IN CASE lastev'.op = "register_write" -> after = before \cup {lastev'.addr}
            [] lastev'.op \in {"reduce", "append_stack"} ->
                 after = before \cup AllWrites(lastev'.right)
            [] lastev'.op = "exit_func" -> after \subseteq before
            [] lastev'.op = "pop" -> after = AllWrites(pop(views[1]))
            [] OTHER -> after = before]_vars

\* a join that popped a frame holding parallel writes the frame below lacked
C32_Witness ==
  /\ lastev.op = "join"
  /\ status = "ok"
  /\ Len(views[1]) >= 2
  /\ back(views[1]).pw # {}
  /\ back(views[1]).sw # {}
  /\ back(views[1]).pw \cap back(views[1]).sw = {}
  /\ witness = {}

\* C33 (enter_serial terminates and keeps the bottom frame): on every
\* non-empty stack enter_serial returns after popping at most depth - 1
\* frames, all of them Continuation frames; on return the stack holds exactly
\* one frame or its top frame is a Task frame, and the bottom frame is still
\* there, of the kind it had, even when it is a Continuation frame.
C33_EnterSerialStopsAtBottom ==
  [][(lastev'.op = "enter_serial" /\ views[1] # <<>>) =>
       LET fr == views[1]
           to == views'[1]
       IN /\ status' = "ok"
          /\ Len(to) >= 1
          /\ Len(fr) - Len(to) <= Len(fr) - 1
          /\ \A i \in (Len(to) + 1)..Len(fr) : fr[i].is_continue
          /\ Len(to) = 1 \/ ~back(to).is_continue
          /\ to[1].is_continue = fr[1].is_continue
          /\ Writes(fr[1]) \subseteq Writes(to[1])]_vars

\* a sync that left a lone Continuation frame holding merged writes
C33_Witness ==
  /\ lastev.op = "enter_serial"
  /\ status = "ok"
  /\ Len(views[1]) = 1
  /\ views[1][1].is_continue
  /\ views[1][1].sw = Addr
  /\ views[1][1].pw = {}

\* every live view holds at least one frame and its bottom frame is a Task frame
BottomIsTask ==
  \A v \in ViewId : alive[v] = "live" =>
    (Len(views[v]) >= 1 /\ ~views[v][1].is_continue)

\* C34 (soft-join variant: the bottom frame is a Task frame): the constructed
\* view holds one Task frame, and every operation of the engine that returns
\* normally (identity, add_task_frame, add_continue_frame, push,
\* register_write, join, enter_serial, reduce) keeps every live view non-empty
\* with a Task frame at the bottom; so an enter_serial there, whose loop has no
\* depth test, never pops the last frame and never calls back() on an empty
\* stack. Only a client that calls the helper pop() on its own can take the
\* bottom frame away.
C34_SoftBottomIsTask ==
  /\ [](nev = 0 => BottomIsTask)
  /\ [][(BottomIsTask /\ status' = "ok" /\ lastev'.op # "pop") => BottomIsTask']_vars
  /\ [][(BottomIsTask /\ lastev'.op = "enter_serial") =>
          /\ status' = "ok"
          /\ Len(views'[lastev'.view]) >= 1
          /\ views'[lastev'.view][1].is_continue
               = views[lastev'.view][1].is_continue]_vars

\* a sync on the second view that popped down to its bottom Task frame
C34_Witness ==
  /\ lastev.op = "enter_serial"
  /\ lastev.view = 2
  /\ status = "ok"
  /\ alive[2] = "live"
  /\ Len(views[2]) = 1
  /\ views[2][1].sw # {}
  /\ nev >= 4

\* C35 (function-info frame): an alloca leaves init_sp at the end address of
\* the function's first alloca and low_mark at the lowest start address so
\* far, with low_mark <= init_sp; an alloca that ends above init_sp aborts; no
\* other operation than enter_func and exit_func touches the info frames;
\* exit_func needs the matching func_id and a Task frame on top, erases only
\* addresses of [low_mark, init_sp] and only from the top frame's SW, and pops
\* the info frame.
C35_InfoFrameInvariant ==
  [][LET inf == infos[1]
         f == back(inf)
         n == Len(views[1])
     IN CASE lastev'.op = "register_alloca" /\ inf # <<>> ->
               LET end == lastev'.addr + lastev'.nb
               IN /\ (f.init_sp # 0 /\ end > f.init_sp) <=> (status' = AssertGrow)
                  /\ status' = "ok" =>
                       LET g == back(infos'[1])
                       IN /\ g.init_sp = IF f.init_sp = 0 THEN end ELSE f.init_sp
                          /\ g.low_mark = IF f.init_sp = 0 \/ lastev'.addr < f.low_mark
                                          THEN lastev'.addr ELSE f.low_mark
                          /\ g.low_mark <= g.init_sp
                          /\ g.func_id = f.func_id
                          /\ pop(infos'[1]) = pop(inf)
                          /\ views' = views
          [] lastev'.op = "exit_func" /\ inf # <<>> /\ views[1] # <<>> ->
               /\ status' = "ok" <=> (f.func_id = lastev'.func_id
                                       /\ ~back(views[1]).is_continue)
               /\ status' = "ok" =>
                    /\ infos'[1] = pop(inf)
                    /\ views'[1] = [views[1] EXCEPT ![n].sw = views'[1][n].sw]
                    /\ views'[1][n].sw \subseteq views[1][n].sw
                    /\ views[1][n].sw \ views'[1][n].sw \subseteq f.low_mark..f.init_sp
                    /\ f.init_sp # 0 =>
                         views'[1][n].sw \cap (f.low_mark..f.init_sp) = {}
          [] lastev'.op = "enter_func" ->
               /\ pop(infos'[1]) = inf
               /\ back(infos'[1]).init_sp = 0
          [] OTHER -> infos' = infos]_vars

\* two allocas, the second one lower, in a function entered by enter_func
C35_Witness ==
  /\ lastev.op = "register_alloca"
  /\ status = "ok"
  /\ Len(infos[1]) >= 2
  /\ back(infos[1]).low_mark = lastev.addr
  /\ back(infos[1]).init_sp > lastev.addr + lastev.nb
  /\ views[1] # <<>>
  /\ back(views[1]).sw # {}

====
